---- MODULE Spec2Model ----
(***************************************************************************)
(* Model of the IS-08 channel mapping conformance suite (IS0801Test.py).   *)
(* The suite is a single-threaded client; every test case is a straight    *)
(* sequence of API calls against an external device.  The device is the    *)
(* environment: every response it gives is a nondeterministic input, and   *)
(* its scheduled activations take effect on its own clock.                 *)
(*                                                                         *)
(* Resource reads (GET) succeed and return what the device serves; what a  *)
(* test case reads is drawn when it reads it.  Of the Active resource the  *)
(* timed test cases observe one thing, whether the test route chosen by    *)
(* outputList[0].findAcceptableTestRoute() is present, so `routed` is the  *)
(* snapshot buildJSONObject() returns.  Test cases 01 and 09-12 make no    *)
(* Activation call and are left out.                                       *)
(***************************************************************************)
EXTENDS Integers, Sequences, FiniteSets, TLC

VARIABLES
    test,                \* test case being run by the harness ("idle" before the first)
    pc,                  \* position inside the running test case
    last,                \* position in TestOrder of the last test case started
    verdict,             \* result returned by the test case ("NONE" while running)
    msg,                 \* text of the message the verdict carries
    named,               \* input and output ids the FAIL message of test_13 names
    calls,               \* Active/Activation calls made by the running test case, in order
    routed,              \* device: the test route is present in the Active resource
    acts,                \* device: activation resources created by scheduled activations
    preActivationState,  \* check_delayed_activation: snapshot before submission
    pendingState,        \* check_delayed_activation: snapshot right after submission
    polls,               \* assertActionCompleted: polls made so far
    fetched              \* resources read by the running test case

vars == <<test, pc, last, verdict, msg, named, calls, routed, acts,
          preActivationState, pendingState, polls, fetched>>

\* ---------------------------------------------------------------- bounds
NumInputs == 2        \* inputs served by the device
NumOutputs == 2       \* outputs served by the device
NumChannels == 2      \* channels per output read by test_07

\* ------------------------------------------------------ program constants
RelativeOffset == 2   \* test_03 offset "2:0"
AbsoluteOffset == 2   \* test_04 get_TAI_time(offset=2.0)
DeleteOffset == 2     \* test_05 activationTimestamp "2:0"
LockOffset == 5       \* test_06 activationTimestamp "5:0"
FailSleep == 2        \* time.sleep(2) before re-raising a failed submission
DeleteSleep == 1      \* test_05 time.sleep(1) before delete()
SettleSleep == 2      \* check_delayed_activation time.sleep(2) before polling
TailSleep == 1        \* check_delayed_activation time.sleep(1) at the end
DelayedRetries == 5   \* assertActionCompleted(testRouteAction, retries=5)
DefaultRetries == 5   \* assertActionCompleted default number of polls
PollDelay == 1        \* assertActionCompleted fixed delay between polls

InputIds == 1..NumInputs
OutputIds == 1..NumOutputs
\* ids live in one space of strings: input i is i, output o is NumInputs + o
OutId(o) == NumInputs + o

\* statuses the device can answer a submission with: created, rejected route,
\* locked route, anything else (network error, malformed body, other status)
Responses == {"ok", "400", "423", "err"}

TestOrder == <<"t02", "t03", "t04", "t05", "t06", "t07", "t08", "t13", "t14", "t15">>
ActivationTests == {"t02", "t03", "t04", "t05", "t06", "t13", "t14", "t15"}
ReadOnlyTests == {"t07", "t08"}

TestIndex(t) == CHOOSE i \in 1..Len(TestOrder) : TestOrder[i] = t

FirstPc(t) ==
    CASE t = "t02" -> "t02_fire"
      [] t \in {"t03", "t04"} -> "cda_unroute"
      [] t = "t05" -> "t05_unroute"
      [] t = "t06" -> "t06_fire"
      [] OTHER -> t

NoFetch == [kind |-> "none"]
NoIds == [input |-> 0, output |-> 0]

\* ---------------------------------------------------------------- helpers
Max(a, b) == IF a >= b THEN a ELSE b

\* one entry of the call log
Call(op, resp, arg) == Append(calls, [op |-> op, resp |-> resp, arg |-> arg])

\* d seconds pass on the device clock
Elapse(A, d) ==
    {[a EXCEPT !.rem = IF a.st = "pending" THEN Max(0, a.rem - d) ELSE 0] : a \in A}

\* POST /map/activations answered 2xx: an immediate activation (offset 0) is
\* applied at once, a scheduled one becomes a pending resource due in `offset`
\* seconds; a device that does not honour the schedule applies it at once.
Accepted(offset, early) ==
    IF offset = 0 \/ early
    THEN /\ routed' = TRUE
         /\ acts' = IF offset = 0 THEN acts
                    ELSE acts \cup {[mine |-> TRUE, rem |-> 0, st |-> "active"]}
    ELSE /\ routed' = routed
         /\ acts' = acts \cup {[mine |-> TRUE, rem |-> offset, st |-> "pending"]}

\* an NMOSTestException leaves the test method: GenericTest records FAIL
Raise ==
    /\ verdict' = "FAIL"
    /\ pc' = "done"

Return(v) ==
    /\ verdict' = v
    /\ pc' = "done"

Init ==
    /\ test = "idle"
    /\ pc = "done"
    /\ last = 0
    /\ verdict = "NONE"
    /\ msg = "none"
    /\ named = NoIds
    /\ calls = <<>>
    /\ routed \in BOOLEAN
    /\ acts = {}
    /\ preActivationState = FALSE
    /\ pendingState = FALSE
    /\ polls = 0
    /\ fetched = NoFetch

\* the harness runs the selected test cases one after another, in order
Start(t) ==
    /\ pc = "done"
    /\ TestIndex(t) > last
    /\ test' = t
    /\ last' = TestIndex(t)
    /\ pc' = FirstPc(t)
    /\ verdict' = "NONE"
    /\ msg' = "none"
    /\ named' = NoIds
    /\ calls' = <<>>
    /\ acts' = {[a EXCEPT !.mine = FALSE] : a \in {b \in acts : b.st = "pending"}}
    /\ preActivationState' = FALSE
    /\ pendingState' = FALSE
    /\ polls' = 0
    /\ fetched' = NoFetch
    /\ UNCHANGED routed

\* ------------------------------------------------------------ the device
\* a pending activation whose time has come takes effect
DeviceApply ==
    \E a \in acts :
        /\ a.st = "pending"
        /\ a.rem = 0
        /\ acts' = (acts \ {a}) \cup {[a EXCEPT !.st = "active"]}
        /\ routed' = TRUE
        /\ UNCHANGED <<test, pc, last, verdict, msg, named, calls,
                       preActivationState, pendingState, polls, fetched>>

\* wall-clock time passes while requests travel and between test cases
Tick ==
    /\ \E a \in acts : a.st = "pending" /\ a.rem > 0
    /\ acts' = Elapse(acts, 1)
    /\ UNCHANGED <<test, pc, last, verdict, msg, named, calls, routed,
                   preActivationState, pendingState, polls, fetched>>

\* ------------------------------------------------- assertActionCompleted
Retries(t) == IF t = "t02" THEN DefaultRetries ELSE DelayedRetries

\* one poll of Active: done as soon as the route is seen, an exception after
\* the last unsuccessful poll, the fixed delay otherwise
AssertPoll(nextPc, v) ==
    /\ calls' = Call("poll", IF routed THEN "seen" ELSE "unseen", 0)
    /\ IF routed
       THEN /\ pc' = nextPc
            /\ verdict' = v
            /\ UNCHANGED <<polls, acts>>
       ELSE IF polls + 1 >= Retries(test)
            THEN /\ Raise
                 /\ polls' = polls + 1
                 /\ UNCHANGED acts
            ELSE /\ polls' = polls + 1
                 /\ acts' = Elapse(acts, PollDelay)
                 /\ UNCHANGED <<pc, verdict>>

\* Active.unrouteAll(): submits the activation that clears every route
UnrouteAll(nextPc) ==
    \E r \in Responses :
        /\ calls' = Call("unrouteAll", r, 0)
        /\ IF r = "ok"
           THEN /\ routed' = FALSE
                /\ pc' = nextPc
                /\ UNCHANGED verdict
           ELSE /\ Raise
                /\ UNCHANGED routed

\* Activation.fireActivation() of a scheduled activation inside try/except:
\* on an exception the handler sleeps and re-raises
FireScheduled(offset, okPc, failPc) ==
    \E r \in Responses, early \in BOOLEAN :
        /\ calls' = Call("fire", r, offset)
        /\ IF r = "ok"
           THEN /\ Accepted(offset, early)
                /\ pc' = okPc
           ELSE /\ pc' = failPc
                /\ UNCHANGED <<routed, acts>>

\* the handler with the exception swallowed
FailSleepSwallow ==
    /\ calls' = Call("sleep", "-", FailSleep)
    /\ acts' = Elapse(acts, FailSleep)
    /\ Return("PASS")

\* except NMOSTestException as e: time.sleep(2); raise e
FailSleepRaise ==
    /\ calls' = Call("sleep", "-", FailSleep)
    /\ acts' = Elapse(acts, FailSleep)
    /\ Raise

\* ---------------------------------------------------------------- test_02
test_02_fire ==
    /\ test = "t02" /\ pc = "t02_fire"
    /\ \E r \in Responses, applied \in BOOLEAN :
        /\ calls' = Call("fire", r, 0)
        /\ IF r = "ok"
           THEN /\ routed' = (routed \/ applied)
                /\ pc' = "t02_assert"
                /\ UNCHANGED verdict
           ELSE /\ Raise
                /\ UNCHANGED routed
    /\ UNCHANGED <<test, last, msg, named, acts, preActivationState, pendingState,
                   polls, fetched>>

test_02_assert ==
    /\ test = "t02" /\ pc = "t02_assert"
    /\ AssertPoll("done", "PASS")
    /\ UNCHANGED <<test, last, msg, named, routed, preActivationState, pendingState, fetched>>

\* ------------------------------------- check_delayed_activation (03, 04)
OffsetOf(t) == IF t = "t03" THEN RelativeOffset ELSE AbsoluteOffset

cda_unrouteAll ==
    /\ test \in {"t03", "t04"} /\ pc = "cda_unroute"
    /\ UnrouteAll("cda_pre")
    /\ UNCHANGED <<test, last, msg, named, acts, preActivationState, pendingState,
                   polls, fetched>>

cda_preActivationState ==
    /\ test \in {"t03", "t04"} /\ pc = "cda_pre"
    /\ preActivationState' = routed
    /\ calls' = Call("snapshot", "-", 0)
    /\ pc' = "cda_fire"
    /\ UNCHANGED <<test, last, verdict, msg, named, routed, acts, pendingState, polls, fetched>>

cda_fireActivation ==
    /\ test \in {"t03", "t04"} /\ pc = "cda_fire"
    /\ FireScheduled(OffsetOf(test), "cda_post", "cda_failsleep")
    /\ UNCHANGED <<test, last, verdict, msg, named, preActivationState, pendingState,
                   polls, fetched>>

cda_failSleep ==
    /\ test \in {"t03", "t04"} /\ pc = "cda_failsleep"
    /\ FailSleepRaise
    /\ UNCHANGED <<test, last, msg, named, routed, preActivationState, pendingState,
                   polls, fetched>>

\* compare_json on two snapshots of Active: structural equality
compare_json(a, b) == a = b

\* the check left out
ImmediateCheckSkipped(pre, post) == FALSE

\* the check made on the snapshot taken right after submission
ImmediateCheck(pre, post) == ~compare_json(pre, post)

cda_pendingState ==
    /\ test \in {"t03", "t04"} /\ pc = "cda_post"
    /\ pendingState' = routed
    /\ calls' = Call("snapshot", "-", 0)
    /\ IF ImmediateCheck(preActivationState, routed)
       THEN /\ msg' = "Scheduled Activation completed immediately"
            /\ Raise
       ELSE /\ pc' = "cda_wait"
            /\ UNCHANGED <<msg, verdict>>
    /\ UNCHANGED <<test, last, named, routed, acts, preActivationState, polls, fetched>>

cda_settleSleep ==
    /\ test \in {"t03", "t04"} /\ pc = "cda_wait"
    /\ calls' = Call("sleep", "-", SettleSleep)
    /\ acts' = Elapse(acts, SettleSleep)
    /\ pc' = "cda_poll"
    /\ UNCHANGED <<test, last, verdict, msg, named, routed, preActivationState,
                   pendingState, polls, fetched>>

cda_assertActionCompleted ==
    /\ test \in {"t03", "t04"} /\ pc = "cda_poll"
    /\ AssertPoll("cda_tail", "NONE")
    /\ UNCHANGED <<test, last, msg, named, routed, preActivationState, pendingState, fetched>>

\* time.sleep(1), then test_03 / test_04 return test.PASS()
cda_tailSleep ==
    /\ test \in {"t03", "t04"} /\ pc = "cda_tail"
    /\ calls' = Call("sleep", "-", TailSleep)
    /\ acts' = Elapse(acts, TailSleep)
    /\ Return("PASS")
    /\ UNCHANGED <<test, last, msg, named, routed, preActivationState, pendingState,
                   polls, fetched>>

\* ---------------------------------------------------------------- test_05
test_05_unrouteAll ==
    /\ test = "t05" /\ pc = "t05_unroute"
    /\ UnrouteAll("t05_fire")
    /\ UNCHANGED <<test, last, msg, named, acts, preActivationState, pendingState,
                   polls, fetched>>

test_05_fireActivation ==
    /\ test = "t05" /\ pc = "t05_fire"
    /\ FireScheduled(DeleteOffset, "t05_sleep", "t05_failsleep")
    /\ UNCHANGED <<test, last, verdict, msg, named, preActivationState, pendingState,
                   polls, fetched>>

test_05_failSleep ==
    /\ test = "t05" /\ pc = "t05_failsleep"
    /\ FailSleepRaise
    /\ UNCHANGED <<test, last, msg, named, routed, preActivationState, pendingState,
                   polls, fetched>>

test_05_sleep ==
    /\ test = "t05" /\ pc = "t05_sleep"
    /\ calls' = Call("sleep", "-", DeleteSleep)
    /\ acts' = Elapse(acts, DeleteSleep)
    /\ pc' = "t05_delete"
    /\ UNCHANGED <<test, last, verdict, msg, named, routed, preActivationState,
                   pendingState, polls, fetched>>

\* what test_05 does once activation.delete() has returned
AfterDelete == Return("PASS")

\* Activation.delete(): DELETE /map/activations/{id}; a device that honours it
\* removes the activation if it is still pending
test_05_delete ==
    /\ test = "t05" /\ pc = "t05_delete"
    /\ \E r \in Responses, honoured \in BOOLEAN :
        /\ calls' = Call("delete", r, 0)
        /\ IF r = "ok"
           THEN /\ acts' = IF honoured
                           THEN {IF a.mine /\ a.st = "pending"
                                 THEN [a EXCEPT !.st = "deleted", !.rem = 0]
                                 ELSE a : a \in acts}
                           ELSE acts
                /\ AfterDelete
           ELSE /\ Raise
                /\ UNCHANGED acts
    /\ UNCHANGED <<test, last, msg, named, routed, preActivationState, pendingState,
                   polls, fetched>>

\* ---------------------------------------------------------------- test_06
\* fireActivation() with its exception swallowed
test_06_fireActivation_unchecked ==
    /\ test = "t06" /\ pc = "t06_fire"
    /\ \E r \in Responses, early \in BOOLEAN :
        /\ calls' = Call("fire", r, LockOffset)
        /\ pc' = "t06_lock"
        /\ IF r = "ok" THEN Accepted(LockOffset, early) ELSE UNCHANGED <<routed, acts>>
    /\ UNCHANGED <<test, last, verdict, msg, named, preActivationState,
                   pendingState, polls, fetched>>

\* fireActivation() outside any try: an exception leaves the test at once
test_06_fireActivation ==
    /\ test = "t06" /\ pc = "t06_fire"
    /\ \E r \in Responses, early \in BOOLEAN :
        /\ calls' = Call("fire", r, LockOffset)
        /\ IF r = "ok"
           THEN /\ Accepted(LockOffset, early)
                /\ pc' = "t06_lock"
                /\ UNCHANGED verdict
           ELSE /\ Raise
                /\ UNCHANGED <<routed, acts>>
    /\ UNCHANGED <<test, last, msg, named, preActivationState, pendingState, polls, fetched>>

\* the status checkLock() accepts from the conflicting request
LockedStatus == "423"

\* Activation.checkLock(): fires a conflicting request; anything but the
\* locked status raises
test_06_checkLock ==
    /\ test = "t06" /\ pc = "t06_lock"
    /\ \E r \in Responses :
        /\ calls' = Call("checkLock", r, 0)
        /\ IF r = LockedStatus THEN Return("PASS") ELSE Raise
    /\ UNCHANGED <<test, last, msg, named, routed, acts, preActivationState, pendingState,
                   polls, fetched>>

\* ---------------------------------------------------------------- test_13
\* capabilities of an output: routable_inputs may be absent
Caps13 == {c \in [has : BOOLEAN, ids : SUBSET InputIds] : ~c.has => c.ids = {}}

\* the status checkReject() accepts from the device
RejectedStatus == "400"

\* outputInstance.id in the FAIL message: outputInstance is the variable of the
\* first loop (lines 231-243), left at the last output of outputList
MessageOutput(o) == OutId(NumOutputs)

\* forbiddenRoutes: inputIDList minus the routable inputs, in inputList order
forbiddenRoutes(caps, o) == InputIds \ caps[o].ids

FirstOf(S) == CHOOSE x \in S : \A y \in S : x <= y

\* what test_13 returns once the loop over constrainedOutputList has ended
AfterLoop13 == [verdict |-> "NA", msg |-> "no route is forbidden",
                named |-> NoIds]

\* the loop of lines 253-271 from output o on; log holds the submissions made
RECURSIVE Loop13(_, _, _, _)
Loop13(o, caps, rs, log) ==
    IF o > NumOutputs
    THEN AfterLoop13 @@ [log |-> log]
    ELSE IF ~caps[o].has \/ forbiddenRoutes(caps, o) = {}
         THEN Loop13(o + 1, caps, rs, log)
         ELSE LET i == FirstOf(forbiddenRoutes(caps, o))
                  lg == Append(log, [op |-> "checkReject", resp |-> rs[o],
                                    arg |-> OutId(o)])
              IN IF rs[o] # RejectedStatus
                 THEN [verdict |-> "FAIL", msg |-> "forbidden route created",
                       named |-> [input |-> i, output |-> MessageOutput(o)],
                       log |-> lg]
                 ELSE Loop13(o + 1, caps, rs, lg)

Run13(caps, rs) ==
    IF \A o \in OutputIds : ~caps[o].has
    THEN [verdict |-> "NA", msg |-> "no outputs have routing constraints set",
          named |-> NoIds, log |-> <<>>]
    ELSE Loop13(1, caps, rs, <<>>)

test_13_violate_routing_constraints_rejected ==
    /\ test = "t13" /\ pc = "t13"
    /\ \E caps \in [OutputIds -> Caps13], rs \in [OutputIds -> Responses] :
        LET res == Run13(caps, rs)
        IN /\ fetched' = [kind |-> "t13", caps |-> caps]
           /\ calls' = res.log
           /\ msg' = res.msg
           /\ named' = res.named
           /\ Return(res.verdict)
    /\ UNCHANGED <<test, last, routed, acts, preActivationState, pendingState, polls>>

\* ---------------------------------------------------------------- test_14
BlockSizes == {1, 2}
ChannelCounts == {2, 4}

\* an input as the device serves it
Inputs14 == [reordering : BOOLEAN, block_size : BlockSizes, channels : ChannelCounts]

\* a Python error that is no NMOSTestException leaves the test method
PyError == [raised |-> TRUE, value |-> 0]
PyValue(v) == [raised |-> FALSE, value |-> v]

\* len(inputInstance.getChannelList) on an input with n channels (line 296):
\* getChannelList is not called, and len() of a bound method is a TypeError
LenOfMethod(n) == PyError

\* inputInstance.id in targetOutputList.keys (line 309): keys is not called,
\* and `in` on a bound method is a TypeError; line 307 repeats line 296
InKeysMethod(i) == PyError

test_14_reordering_constraint ==
    /\ test = "t14" /\ pc = "t14"
    /\ \E ins \in [InputIds -> Inputs14], oc \in ChannelCounts, r \in Responses :
        LET constrainedInputs == {i \in InputIds : ~ins[i].reordering}
            lens == [i \in InputIds |-> LenOfMethod(ins[i].channels)]
            filteredInputs == {i \in constrainedInputs :
                                 ~lens[i].raised
                                 /\ lens[i].value >= ins[i].block_size * 2}
        IN /\ fetched' = [kind |-> "t14", inputs |-> ins, out_channels |-> oc]
           /\ IF constrainedInputs = {}
              THEN /\ msg' = "No inputs prevent re-ordering."
                   /\ Return("NA")
                   /\ UNCHANGED calls
              ELSE IF \E i \in constrainedInputs : lens[i].raised
              THEN /\ msg' = "TypeError"
                   /\ Return("ERROR")
                   /\ UNCHANGED calls
              ELSE IF \E i \in filteredInputs : InKeysMethod(i).raised
              THEN /\ msg' = "TypeError"
                   /\ Return("ERROR")
                   /\ UNCHANGED calls
              ELSE \* testableInputs is empty: the activation has no action
                   /\ calls' = Call("fire", r, 0)
                   /\ IF r # "ok"
                      THEN /\ msg' = "none"
                           /\ Return("PASS")
                      ELSE /\ msg' = "Channels could be re-ordered"
                           /\ Return("FAIL")
    /\ UNCHANGED <<test, last, named, routed, acts, preActivationState,
                   pendingState, polls>>

\* ---------------------------------------------------------------- test_15
\* output.id had getRoutableOutputs() returned a single output
IdOfOutput == PyValue(OutId(1))

\* output = chosenInput.getRoutableOutputs() is the list of routable outputs;
\* output.id (line 367) is an AttributeError, raised before the Action is built
IdOfList == PyError

test_15_block_constraint ==
    /\ test = "t15" /\ pc = "t15"
    /\ \E bs \in [InputIds -> BlockSizes], r \in Responses :
        LET constraintSet == \E i \in InputIds : bs[i] > 1
        IN /\ fetched' = [kind |-> "t15", block_size |-> bs]
           /\ IF ~constraintSet
              THEN /\ msg' = "No inputs constrain by block."
                   /\ Return("NA")
                   /\ UNCHANGED calls
              ELSE IF IdOfList.raised
              THEN /\ msg' = "AttributeError"
                   /\ Return("ERROR")
                   /\ UNCHANGED calls
              ELSE /\ calls' = Call("fire", r, 0)
                   /\ IF r # "ok"
                      THEN /\ msg' = "none"
                           /\ Return("PASS")
                      ELSE /\ msg' = "Was able to break block size routing constraint"
                           /\ Return("FAIL")
    /\ UNCHANGED <<test, last, named, routed, acts, preActivationState,
                   pendingState, polls>>

\* ---------------------------------------------------------------- test_07
\* one (output, channel) entry of Active as read by getInputChannelIndex and
\* getInputChannelName; "null" is None
Entries07 == [index : {"null", "0"}, name : {"null", "in"}]

Pairs == OutputIds \X (1..NumChannels)

\* lines 157-158
PartialNull(e) == (e.index = "null" \/ e.name = "null") /\ e.index # e.name

\* line 161: test.FAIL(msg) is an expression statement; the result object it
\* builds is dropped and the loops go on
DroppedResult(r, sofar) == sofar

\* the nested loops of lines 146-161 over the pairs still to visit
RECURSIVE Loop07(_, _, _)
Loop07(active, todo, sofar) ==
    IF todo = {} THEN sofar
    ELSE LET p == CHOOSE q \in todo : TRUE
         IN Loop07(active, todo \ {p},
                   IF PartialNull(active[p]) THEN DroppedResult("FAIL", sofar)
                   ELSE sofar)

test_07_unrouted_channels_null ==
    /\ test = "t07" /\ pc = "t07"
    /\ \E active \in [Pairs -> Entries07] :
        LET r == Loop07(active, Pairs, "NONE")
        IN /\ fetched' = [kind |-> "t07", active |-> active]
           /\ Return(IF r = "NONE" THEN "PASS" ELSE r)
    /\ UNCHANGED <<test, last, msg, named, calls, routed, acts, preActivationState,
                   pendingState, polls>>

\* ---------------------------------------------------------------- test_08
Sources == {"srcA", "srcB"}
Caps08 == {c \in [has : BOOLEAN, ids : SUBSET (1..(NumInputs + NumOutputs))] :
             ~c.has => c.ids = {}}
Outputs08 == [sourceID : Sources, caps : Caps08]
Inputs08 == [parent : Sources \cup {"null"}]

\* forbiddenRoutes of lines 173-182, as (output, input) pairs in list order
Reentrant(outs, ins) ==
    {r \in OutputIds \X InputIds : outs[r[1]].sourceID = ins[r[2]].parent}

RouteBefore(r, q) == r[1] < q[1] \/ (r[1] = q[1] /\ r[2] < q[2])

\* line 192: the membership test made on the routable inputs of the output
LoopPossible(r, ids) == OutId(r[1]) \notin ids

\* lines 184-193 for one route: TRUE when the test returns FAIL on it
FailsOn(outs, r) ==
    \/ ~outs[r[1]].caps.has
    \/ LoopPossible(r, outs[r[1]].caps.ids)

test_08_no_reentrant_loops ==
    /\ test = "t08" /\ pc = "t08"
    /\ \E outs \in [OutputIds -> Outputs08], ins \in [InputIds -> Inputs08] :
        LET bad == {r \in Reentrant(outs, ins) : FailsOn(outs, r)}
        IN /\ fetched' = [kind |-> "t08", outputs |-> outs, inputs |-> ins]
           /\ IF bad = {}
              THEN /\ Return("PASS")
                   /\ UNCHANGED <<msg, named>>
              ELSE LET r == CHOOSE q \in bad : \A z \in bad : q = z \/ RouteBefore(q, z)
                   IN /\ msg' = "loop possible"
                      /\ named' = [input |-> r[2], output |-> OutId(r[1])]
                      /\ Return("FAIL")
    /\ UNCHANGED <<test, last, calls, routed, acts, preActivationState,
                   pendingState, polls>>

Next ==
    \/ \E t \in ActivationTests : Start(t)
    \/ DeviceApply
    \/ Tick
    \/ test_02_fire
    \/ test_02_assert
    \/ cda_unrouteAll
    \/ cda_preActivationState
    \/ cda_fireActivation
    \/ cda_failSleep
    \/ cda_pendingState
    \/ cda_settleSleep
    \/ cda_assertActionCompleted
    \/ cda_tailSleep
    \/ test_05_unrouteAll
    \/ test_05_fireActivation
    \/ test_05_failSleep
    \/ test_05_sleep
    \/ test_05_delete
    \/ test_06_fireActivation
    \/ test_06_checkLock
    \/ test_13_violate_routing_constraints_rejected
    \/ test_14_reordering_constraint
    \/ test_15_block_constraint

Spec == Init /\ [][Next]_vars

\* the test cases that only read resources, run against a fresh device
NextStatic ==
    \/ \E t \in ReadOnlyTests : Start(t)
    \/ test_07_unrouted_channels_null
    \/ test_08_no_reentrant_loops

SpecStatic == Init /\ [][NextStatic]_vars

\* ================================================================ claims
Finished(t) == test = t /\ pc = "done"
Delayed == test \in {"t03", "t04"}
Idx == 1..Len(calls)
PollIdx == {i \in Idx : calls[i].op = "poll"}
SubmissionOps == {"fire", "unrouteAll", "checkLock", "checkReject"}

\* C1: test_07 reports FAIL whenever some (output, channel) pair has exactly
\* one of index and name null, and PASS only if index is null exactly when
\* name is null for every pair.
C1_PartialNullFails ==
    Finished("t07") =>
        LET partial == \E p \in Pairs :
                (fetched.active[p].index = "null") # (fetched.active[p].name = "null")
        IN /\ partial => verdict = "FAIL"
           /\ verdict = "PASS" => ~partial

\* C2: test_08 reports PASS exactly when every re-entrant candidate (O, I)
\* has a routable_inputs list on O that excludes I, FAIL otherwise, and PASS
\* when there is no candidate.
C2_ReentrantExcluded ==
    Finished("t08") =>
        LET safe == \A r \in Reentrant(fetched.outputs, fetched.inputs) :
                /\ fetched.outputs[r[1]].caps.has
                /\ r[2] \notin fetched.outputs[r[1]].caps.ids
        IN /\ verdict = "PASS" <=> safe
           /\ verdict = "FAIL" <=> ~safe

\* C3: test_13 reports NA only when no forbidden route was submitted; when
\* one was, PASS if the device rejected every submission, FAIL if it accepted
\* one, and then the message names the output of the accepted route.
C3_ForbiddenRouteVerdict ==
    Finished("t13") =>
        /\ verdict = "NA" => calls = <<>>
        /\ (calls # <<>> /\ \A i \in Idx : calls[i].resp = RejectedStatus)
              => verdict = "PASS"
        /\ \A i \in Idx : calls[i].resp = "ok"
              => verdict = "FAIL" /\ named.output = calls[i].arg

\* the calls check_delayed_activation makes, in the order it makes them
DelayedOrder ==
    /\ \A i \in Idx :
        /\ i = 1 => calls[i].op = "unrouteAll"
        /\ i = 2 => calls[i].op = "snapshot" /\ calls[1].resp = "ok"
        /\ i = 3 => calls[i].op = "fire" /\ calls[i].arg = OffsetOf(test)
        /\ i = 4 => IF calls[3].resp = "ok" THEN calls[i].op = "snapshot"
                    ELSE calls[i] = [op |-> "sleep", resp |-> "-", arg |-> FailSleep]
        /\ i = 5 => /\ calls[3].resp = "ok"
                    /\ calls[i] = [op |-> "sleep", resp |-> "-", arg |-> SettleSleep]
        /\ i > 5 =>
              \/ /\ calls[i].op = "poll"
                 /\ (calls[i - 1].op = "poll" \/ i = 6)
                 /\ calls[i - 1].resp # "seen"
              \/ /\ calls[i] = [op |-> "sleep", resp |-> "-", arg |-> TailSleep]
                 /\ calls[i - 1].op = "poll" /\ calls[i - 1].resp = "seen"
                 /\ i = Len(calls)
    /\ Cardinality(PollIdx) <= DelayedRetries

\* C4: check_delayed_activation calls unrouteAll, snapshot, fireActivation,
\* snapshot, sleep, then polls at most 5 times, in that order; PASS only if
\* the two snapshots are equal and the action was seen by one of the polls;
\* unequal snapshots fail with "Scheduled Activation completed immediately"
\* before any poll; five unseen polls do not give PASS.
C4_DelayedActivation ==
    Delayed =>
        /\ DelayedOrder
        /\ verdict = "PASS" =>
              /\ pendingState = preActivationState
              /\ \E i \in PollIdx : calls[i].resp = "seen"
              /\ calls[3].resp = "ok"
        /\ (Len(calls) >= 4 /\ calls[4].op = "snapshot"
                /\ pendingState # preActivationState) =>
              /\ verdict = "FAIL"
              /\ msg = "Scheduled Activation completed immediately"
              /\ PollIdx = {}
        /\ (Cardinality(PollIdx) = DelayedRetries
                /\ \A i \in PollIdx : calls[i].resp = "unseen") => verdict = "FAIL"

\* a delayed activation that passed after two unseen polls
C4_Witness ==
    /\ Delayed /\ verdict = "PASS"
    /\ Cardinality(PollIdx) = 3
    /\ Len(calls) = 9

\* C5 as stated: test_05 reports PASS only if the activation it fired was
\* deleted while pending and its action never takes effect afterwards.
C5_DeletedNeverApplied ==
    (test = "t05" /\ verdict = "PASS") =>
        \A a \in acts : a.mine => a.st = "deleted"

\* C5 amended: test_05 reports PASS only if the scheduled activation was
\* fired successfully and the delete request made one second later was
\* answered with success; it reads Active at no point after the deletion.
C5_DeleteAnswered ==
    (test = "t05" /\ verdict = "PASS") =>
        calls = << [op |-> "unrouteAll", resp |-> "ok", arg |-> 0],
                   [op |-> "fire", resp |-> "ok", arg |-> DeleteOffset],
                   [op |-> "sleep", resp |-> "-", arg |-> DeleteSleep],
                   [op |-> "delete", resp |-> "ok", arg |-> 0] >>

\* test_05 has passed and the activation it deleted took effect at its time
C5_Witness ==
    /\ test = "t05" /\ verdict = "PASS"
    /\ calls[2].resp = "ok" /\ calls[4].op = "delete"
    /\ routed
    /\ \E a \in acts : a.mine /\ a.st = "active"

\* C6: test_06 reports PASS only if the "5:0" activation was fired
\* successfully and checkLock's request was then answered 423; checkLock and
\* delete are only ever called after a successful fireActivation.
C6_LockAfterFire ==
    /\ (test = "t06" /\ verdict = "PASS") =>
          calls = << [op |-> "fire", resp |-> "ok", arg |-> LockOffset],
                     [op |-> "checkLock", resp |-> "423", arg |-> 0] >>
    /\ \A i \in Idx : calls[i].op \in {"checkLock", "delete"} =>
          \E j \in 1..(i - 1) : calls[j].op = "fire" /\ calls[j].resp = "ok"

C6_Witness ==
    /\ test = "t06" /\ verdict = "PASS"
    /\ calls[2].op = "checkLock"
    /\ \E a \in acts : a.mine /\ a.st = "pending"

\* C7: test_14 ends in NA, PASS or FAIL: NA when no cross-block reordering
\* action can be built, otherwise it submits the swap and reports PASS exactly
\* when the device rejects it and FAIL exactly when the device accepts it.
Constructible14(f) ==
    \E i \in InputIds :
        /\ ~f.inputs[i].reordering
        /\ f.inputs[i].channels >= 2 * f.inputs[i].block_size
        /\ f.out_channels >= 2 * f.inputs[i].block_size

C7_ReorderingVerdict ==
    Finished("t14") =>
        /\ verdict \in {"NA", "PASS", "FAIL"}
        /\ verdict = "NA" <=> ~Constructible14(fetched)
        /\ Constructible14(fetched) =>
              /\ Len(calls) = 1 /\ calls[1].op = "fire"
              /\ verdict = "PASS" <=> calls[1].resp # "ok"
              /\ verdict = "FAIL" <=> calls[1].resp = "ok"

\* C8: test_15 ends in NA, PASS or FAIL: NA when no input has block_size > 1,
\* otherwise it submits an out-of-block route and reports PASS exactly when
\* the device rejects it and FAIL exactly when the device accepts it.
C8_BlockVerdict ==
    Finished("t15") =>
        LET constrained == \E i \in InputIds : fetched.block_size[i] > 1
        IN /\ verdict \in {"NA", "PASS", "FAIL"}
           /\ verdict = "NA" <=> ~constrained
           /\ constrained =>
                 /\ Len(calls) = 1 /\ calls[1].op = "fire"
                 /\ verdict = "PASS" <=> calls[1].resp # "ok"
                 /\ verdict = "FAIL" <=> calls[1].resp = "ok"

C10_NothingLeftPending ==
    (pc = "done" /\ test # "idle") =>
        \A a \in acts : a.mine => a.st # "pending"

====
